---- MODULE Spec2Model ----
(***************************************************************************)
(* Order tracking ("acompanhamento") microservice.                         *)
(*                                                                         *)
(* The model covers the domain service AcompanhamentoService, the state    *)
(* table OrderStateManager and the SQLAlchemy repository                   *)
(* AcompanhamentoRepository over the table "acompanhamento" (unique        *)
(* id_pedido).  Every caller of the service (an HTTP request, a queue      *)
(* worker) is a worker with its own database session; a service coroutine  *)
(* is split at its awaits on the repository, so that the coroutines of     *)
(* different workers interleave exactly where the code can be suspended.   *)
(*                                                                         *)
(* Spec lets the calls of the workers overlap, as HTTP requests and the    *)
(* consumers of different queues do; SeqSpec runs one call at a time, as   *)
(* the loop of one queue consumer does, which awaits the handling of a     *)
(* message before it takes the next; PayloadSpec does the same with every  *)
(* payload of the order-created event.                                     *)
(***************************************************************************)
EXTENDS Naturals, Integers, Sequences, FiniteSets, TLC

(***************************************************************************)
(* Bounds of the model.                                                    *)
(***************************************************************************)
MaxOrders == 1
MaxWorkers == 2
\* readings of the clock in a behaviour of Spec and in one of SeqSpec
MaxClock == 3
MaxCalls == 5

Orders == 1..MaxOrders
Workers == 1..MaxWorkers

(***************************************************************************)
(* Python None, for Optional values and empty query results.               *)
(***************************************************************************)
None == [none |-> TRUE]
NoTempo == "<None>"

(***************************************************************************)
(* app/domain/order_state.py                                               *)
(***************************************************************************)
StatusPedido == {"RECEBIDO", "EM_PREPARACAO", "PRONTO", "FINALIZADO"}
StatusPagamento == {"PENDENTE", "PAGO", "FALHOU"}

StatusPedidoValue ==
    [RECEBIDO |-> "Recebido", EM_PREPARACAO |-> "Em preparação",
     PRONTO |-> "Pronto", FINALIZADO |-> "Finalizado"]

StatusPagamentoValue ==
    [PENDENTE |-> "pendente", PAGO |-> "pago", FALHOU |-> "falhou"]

\* StatusPedido(value) / StatusPagamento(value): the member with that value
StatusPedidoOf(s) == CHOOSE m \in StatusPedido : StatusPedidoValue[m] = s
StatusPagamentoOf(s) == CHOOSE m \in StatusPagamento : StatusPagamentoValue[m] = s

\* the key of the enum a status hashes and compares equal to: StatusPedido
\* is a str enum, so a value is found where its member is the key
Chave(status) ==
    IF \E m \in StatusPedido : StatusPedidoValue[m] = status
    THEN StatusPedidoOf(status)
    ELSE status

\* a transition table in which a finished order can be reopened
VALID_TRANSITIONS_reopen ==
    [RECEBIDO |-> <<"EM_PREPARACAO">>, EM_PREPARACAO |-> <<"PRONTO">>,
     PRONTO |-> <<"FINALIZADO">>, FINALIZADO |-> <<"EM_PREPARACAO">>]

VALID_TRANSITIONS ==
    [RECEBIDO |-> <<"EM_PREPARACAO">>, EM_PREPARACAO |-> <<"PRONTO">>,
     PRONTO |-> <<"FINALIZADO">>, FINALIZADO |-> <<>>]

SeqElems(s) == {s[i] : i \in 1..Len(s)}

\* a check that accepts any status other than the current one
can_transition_any(current_status, new_status) ==
    IF current_status \notin DOMAIN VALID_TRANSITIONS
    THEN FALSE
    ELSE new_status # current_status

\* a check that lets a finished order be moved to any other status
can_transition_reabrir(current_status, new_status) ==
    IF current_status \notin DOMAIN VALID_TRANSITIONS
    THEN FALSE
    ELSE \/ new_status \in SeqElems(VALID_TRANSITIONS[current_status])
         \/ current_status = "FINALIZADO" /\ new_status # "FINALIZADO"

can_transition(current_status, new_status) ==
    IF Chave(current_status) \notin DOMAIN VALID_TRANSITIONS
    THEN FALSE
    ELSE Chave(new_status) \in SeqElems(VALID_TRANSITIONS[Chave(current_status)])

\* the next states read from a table in which a finished order can be
\* reopened
get_next_valid_states_reopen(current_status) ==
    IF Chave(current_status) \in DOMAIN VALID_TRANSITIONS_reopen
    THEN VALID_TRANSITIONS_reopen[Chave(current_status)]
    ELSE <<>>

\* OrderStateManager.get_next_valid_states: VALID_TRANSITIONS.get(..., [])
get_next_valid_states(current_status) ==
    IF Chave(current_status) \in DOMAIN VALID_TRANSITIONS
    THEN VALID_TRANSITIONS[Chave(current_status)]
    ELSE <<>>

(***************************************************************************)
(* Inputs: the events and commands the callers hand to the service.        *)
(* ItemPedido refuses a non-positive id or quantity, so the items below    *)
(* are the constructible ones.                                             *)
(***************************************************************************)
Cpfs == {"12345678901"}

\* the item lists of the upstream payloads, with the category of each item
ItensPayload ==
    { << [id_produto |-> 1, quantidade |-> 1, categoria |-> "LANCHE"] >>,
      << [id_produto |-> 1, quantidade |-> 2, categoria |-> "BEBIDA"],
         [id_produto |-> 2, quantidade |-> 1, categoria |-> "SOBREMESA"] >> }

\* the model ItemPedido: it has the fields id_produto and quantidade, and
\* pydantic drops every other key it is given
ItemPedido(raw) ==
    [id_produto |-> raw.id_produto, quantidade |-> raw.quantidade]

RECURSIVE ItensValidados(_)
ItensValidados(itens) ==
    IF itens = <<>> THEN <<>>
    ELSE <<ItemPedido(Head(itens))>> \o ItensValidados(Tail(itens))

ItemLists == {ItensValidados(itens) : itens \in ItensPayload}

TempoInputs == {NoTempo, "", "00:30:00"}

\* what the upstream service sends for a new order
PayloadsPedido ==
    [id_pedido : Orders, cpf_cliente : Cpfs, itens : ItensPayload,
     tempo_estimado : TempoInputs]

\* the ValidationError of the validators validate_itens_not_empty
ItensVazios ==
    [exc |-> "ValidationError", msg |-> "Order must have at least one item"]

\* no validation of the item list
validate_itens_not_empty_any(v) == TRUE

\* validate_itens_not_empty of EventoPedido and of Acompanhamento: whether
\* the list passes (`not v or len(v) == 0` raises)
validate_itens_not_empty(v) == v # <<>> /\ Len(v) # 0

\* the model EventoPedido built from a payload: itens is List[ItemPedido]
EventoPedido(payload) ==
    IF validate_itens_not_empty(payload.itens)
    THEN [payload EXCEPT !.itens = ItensValidados(@)]
    ELSE ItensVazios

\* the model Acompanhamento built from its fields
Acompanhamento(campos) ==
    IF validate_itens_not_empty(campos.itens) THEN campos ELSE ItensVazios

EventosPedido == {EventoPedido(payload) : payload \in PayloadsPedido}

\* one payload per order
EventosPedidoSimples ==
    {e \in EventosPedido : Len(e.itens) = 1 /\ e.tempo_estimado = NoTempo}

EventosPagamento == [id_pedido : Orders, status : StatusPagamento]

(***************************************************************************)
(* AcompanhamentoService.calcular_tempo_estimado_por_itens                 *)
(***************************************************************************)
Pad2(n) == IF n < 10 THEN "0" \o ToString(n) ELSE ToString(n)

FormatHHMM(total) == Pad2(total \div 60) \o ":" \o Pad2(total % 60) \o ":00"

\* str.upper() on the category strings the model uses
Upper(s) ==
    CASE s \in {"LANCHE", "lanche", "Lanche"} -> "LANCHE"
      [] s \in {"ACOMPANHAMENTO", "acompanhamento"} -> "ACOMPANHAMENTO"
      [] s \in {"SOBREMESA", "sobremesa"} -> "SOBREMESA"
      [] s \in {"BEBIDA", "bebida", "Bebida"} -> "BEBIDA"
      [] s = "batata" -> "BATATA"
      [] OTHER -> s

\* an item is an object, the record of its attributes, or a dict, the
\* record [keys |-> its keys and values]; NoTempo is the value None
IsDict(item) == DOMAIN item = {"keys"}

HasAttr(item, name) == name \in DOMAIN item

\* dict.get(name, default)
Get(d, name, default) == IF name \in DOMAIN d THEN d[name] ELSE default

\* lines 127-132: .upper() is called on the attribute as it is, and None
\* has no such method
UpperRaises(item) ==
    IF HasAttr(item, "categoria") THEN item.categoria = NoTempo
    ELSE IF HasAttr(item, "category") THEN item.category = NoTempo
    ELSE FALSE

\* the (categoria, quantidade) pair lines 123-142 extract from one item
ItemCategoria(item) ==
    IF HasAttr(item, "categoria") THEN Upper(item.categoria)
    ELSE IF HasAttr(item, "category") THEN Upper(item.category)
    ELSE IF IsDict(item)
    THEN LET categoria_raw ==
                 Get(item.keys, "categoria", Get(item.keys, "category", ""))
         IN  Upper(IF categoria_raw \in {NoTempo, ""} THEN "" ELSE categoria_raw)
    ELSE NoTempo

ItemQuantidade(item) ==
    IF HasAttr(item, "categoria")
    THEN (IF HasAttr(item, "quantidade") THEN item.quantidade ELSE 1)
    ELSE IF HasAttr(item, "category")
    THEN (IF HasAttr(item, "quantidade") THEN item.quantidade
          ELSE IF HasAttr(item, "quality") THEN item.quality ELSE 1)
    ELSE IF IsDict(item)
    THEN Get(item.keys, "quantidade", Get(item.keys, "quantity", 1))
    ELSE IF HasAttr(item, "quantidade") THEN item.quantidade
    ELSE IF HasAttr(item, "quantity") THEN item.quantity
    ELSE 1

ItemMinutos(item) ==
    LET categoria == ItemCategoria(item)
        quantidade == ItemQuantidade(item)
    IN  IF categoria = "LANCHE" THEN 5 * quantidade
        ELSE IF categoria = "ACOMPANHAMENTO" THEN 2 * quantidade
        ELSE IF categoria = "SOBREMESA" THEN 3 * quantidade
        ELSE IF categoria = "BEBIDA" THEN 1 * quantidade
        ELSE 3 * quantidade

RECURSIVE TempoAdicional(_)
TempoAdicional(itens) ==
    IF itens = <<>> THEN 0
    ELSE ItemMinutos(Head(itens)) + TempoAdicional(Tail(itens))

calcular_tempo_estimado_por_itens(itens) ==
    LET tempo_base == 15
        tempo_total == tempo_base + TempoAdicional(itens)
    IN  FormatHHMM(tempo_total)

\* app/domain/order_state.py, get_estimated_time_minutes
get_estimated_time_minutes_pronto(status) ==
    CASE status = "RECEBIDO" -> 5
      [] status = "EM_PREPARACAO" -> 15
      [] status = "PRONTO" -> 15
      [] status = "FINALIZADO" -> 0
      [] OTHER -> 0

get_estimated_time_minutes(status) ==
    CASE Chave(status) = "RECEBIDO" -> 5
      [] Chave(status) = "EM_PREPARACAO" -> 15
      [] Chave(status) = "PRONTO" -> 10
      [] Chave(status) = "FINALIZADO" -> 0
      [] OTHER -> 0

\* StatusPedido(value): the member itself, or the member a value names
StatusInvalido == [exc |-> "ValueError", msg |-> "is not a valid StatusPedido"]

StatusPedidoCall(value) ==
    IF value \in StatusPedido THEN value
    ELSE IF \E m \in StatusPedido : StatusPedidoValue[m] = value
    THEN StatusPedidoOf(value)
    ELSE NoTempo

\* AcompanhamentoService.calcular_tempo_estimado, for a status that
\* StatusPedido(...) accepts
calcular_tempo_estimado(acompanhamento) ==
    LET status == StatusPedidoCall(acompanhamento.status)
        tempo_minutos == get_estimated_time_minutes(status)
    IN  FormatHHMM(tempo_minutos)

\* the client is told of a Ready order only
_deve_notificar_cliente_pronto(novo_status) ==
    novo_status \in {"PRONTO", StatusPedidoValue["PRONTO"]}

\* AcompanhamentoService._deve_notificar_cliente: `in` compares with ==,
\* and a member of the str enum StatusPedido equals its value
_deve_notificar_cliente(novo_status) ==
    \E m \in {"PRONTO", "FINALIZADO"} :
        novo_status \in {m, StatusPedidoValue[m]}

(***************************************************************************)
(* AcompanhamentoRepository: conversions between the domain model and the  *)
(* table row.  The enums are stored as their string values.                *)
(***************************************************************************)
RECURSIVE MapItens(_)
MapItens(itens) ==
    IF itens = <<>> THEN <<>>
    ELSE << [id_produto |-> Head(itens).id_produto,
             quantidade |-> Head(itens).quantidade] >> \o MapItens(Tail(itens))

_to_db_model(a) ==
    [id_pedido |-> a.id_pedido,
     cpf_cliente |-> a.cpf_cliente,
     status |-> StatusPedidoValue[a.status],
     status_pagamento |-> StatusPagamentoValue[a.status_pagamento],
     tempo_estimado |-> a.tempo_estimado,
     atualizado_em |-> a.atualizado_em,
     itens |-> MapItens(a.itens)]

_from_db_model(r) ==
    [id_pedido |-> r.id_pedido,
     cpf_cliente |-> r.cpf_cliente,
     status |-> StatusPedidoOf(r.status),
     status_pagamento |-> StatusPagamentoOf(r.status_pagamento),
     tempo_estimado |-> r.tempo_estimado,
     itens |-> MapItens(r.itens),
     atualizado_em |-> r.atualizado_em]

(***************************************************************************)
(* State.                                                                  *)
(***************************************************************************)
VARIABLES
    db,         \* table acompanhamento: the set of its rows
    clock,      \* datetime.now(): number of readings taken so far
    pc,         \* per worker: where its service coroutine is suspended
    args,       \* per worker: the event or command being handled
    acomp,      \* per worker: the local domain object `acompanhamento`
    seen,       \* per worker: the row as its session has it loaded
    ret,        \* outcome of the call the last step completed, else None
    last,       \* outcome of the last call that wrote the table
    sqs,        \* the queue: the messages sent and not deleted
    consumidor, \* where the task consumir_fila is
    lote,       \* the rest of the batch the consumer is going through
    visto,      \* what the consumer's last step did with a message, else None
    entrada,    \* the call of an estimate function: its name and argument
    resultado   \* what that call returned or raised, None before it

\* the state of the queue and its consumer
qvars == <<sqs, consumidor, lote, visto>>

\* the state of the service, its callers and the table
svars == <<db, clock, pc, args, acomp, seen, ret, last>>

\* a call of one of the estimate functions
cvars == <<entrada, resultado>>

vars ==
    <<db, clock, pc, args, acomp, seen, ret, last, sqs, consumidor, lote,
      visto, entrada, resultado>>

\* the service, its table and the queue after construction
InitApp ==
    /\ db = {}
    /\ clock = 0
    /\ pc = [w \in Workers |-> "idle"]
    /\ args = [w \in Workers |-> None]
    /\ acomp = [w \in Workers |-> None]
    /\ seen = [w \in Workers |-> None]
    /\ ret = None
    /\ last = None
    /\ sqs = {}
    /\ consumidor = "novo"
    /\ lote = <<>>
    /\ visto = None

Init ==
    /\ InitApp
    /\ entrada = None
    /\ resultado = None

\* an exception leaving the service, named by its type and message
Raise(exc, msg) == [exc |-> exc, msg |-> msg]

\* the ValueErrors of the service and the repository
JaExiste == Raise("ValueError", "Já existe acompanhamento para o pedido")
NaoEncontrado == Raise("ValueError", "Acompanhamento não encontrado para pedido")
TransicaoInvalida == Raise("ValueError", "Transição inválida")

IsException(v) == "exc" \in DOMAIN v

RowsOf(id_pedido) == {r \in db : r.id_pedido = id_pedido}

\* AcompanhamentoRepository.buscar_por_id_pedido (scalar_one_or_none)
buscar_por_id_pedido(id_pedido) ==
    LET rows == RowsOf(id_pedido)
    IN  IF rows = {} THEN None
        ELSE IF Cardinality(rows) = 1
        THEN _from_db_model(CHOOSE r \in rows : TRUE)
        ELSE Raise("MultipleResultsFound", "")

\* what a completed call leaves behind: its result or exception and how
\* often it called repository.criar and repository.atualizar
Outcome(a, out, nCriar, nAtualizar) ==
    [args |-> a, out |-> out,
     criar |-> nCriar, atualizar |-> nAtualizar]

\* the call a worker is handling: its input and the row its lookup found
ArgsPedido(evento) == [op |-> "pedido", id_pedido |-> evento.id_pedido]

\* a call that returned or raised before it reached repository.atualizar
ArgsEarly(op, id_pedido) == [op |-> op, id_pedido |-> id_pedido]

\* a status update that was refused
ArgsRecusado(id_pedido, novo_status) ==
    [op |-> "status", id_pedido |-> id_pedido, novo_status |-> novo_status]

ArgsPagamento(evento, found) ==
    [op |-> "pagamento", id_pedido |-> evento.id_pedido, evento |-> evento,
     found |-> found]

ArgsStatus(id_pedido, novo_status, found) ==
    [op |-> "status", id_pedido |-> id_pedido, novo_status |-> novo_status,
     found |-> found]

\* the row of an order as the lookup's session loaded it, None without one
Loaded(id_pedido) ==
    IF RowsOf(id_pedido) = {} THEN None
    ELSE CHOOSE r \in db : r.id_pedido = id_pedido

\* a call is taken by the first worker that is free: the workers are
\* interchangeable, each a session of its own
Free(w) == pc[w] = "idle" /\ \A v \in Workers : v < w => pc[v] # "idle"

Finish(w, out) ==
    /\ pc' = [pc EXCEPT ![w] = "idle"]
    /\ args' = [args EXCEPT ![w] = None]
    /\ acomp' = [acomp EXCEPT ![w] = None]
    /\ seen' = [seen EXCEPT ![w] = None]
    /\ ret' = out

(***************************************************************************)
(* AcompanhamentoService.processar_evento_pedido, lines 21-35: the lookup, *)
(* the early return and the construction of the new Acompanhamento.        *)
(***************************************************************************)
\* a test that takes whatever the event carries, None included
Truthy_always(s) == TRUE

\* Python truthiness of an Optional[str]
Truthy(s) == s # NoTempo /\ s # ""

NovoAcompanhamento(evento, agora) ==
    Acompanhamento(
        [id_pedido |-> evento.id_pedido,
         cpf_cliente |-> evento.cpf_cliente,
         status |-> "RECEBIDO",
         status_pagamento |-> "PENDENTE",
         itens |-> evento.itens,
         tempo_estimado |-> IF Truthy(evento.tempo_estimado)
                            THEN evento.tempo_estimado
                            ELSE calcular_tempo_estimado_por_itens(evento.itens),
         atualizado_em |-> agora])

\* a handler without the lookup of an existing acompanhamento
processar_evento_pedido_sem_busca(w, evento) ==
    /\ Free(w)
    /\ clock' = clock + 1
    /\ acomp' = [acomp EXCEPT ![w] = NovoAcompanhamento(evento, clock')]
    /\ args' = [args EXCEPT ![w] = ArgsPedido(evento)]
    /\ pc' = [pc EXCEPT ![w] = "criar"]
    /\ ret' = None
    /\ UNCHANGED <<db, seen, last>>

processar_evento_pedido(w, evento) ==
    /\ Free(w)
    /\ LET existing == buscar_por_id_pedido(evento.id_pedido)
       IN  IF existing # None
           THEN /\ Finish(w, Outcome(ArgsPedido(evento), existing, 0, 0))
                /\ UNCHANGED <<db, clock, last>>
           ELSE /\ clock' = clock + 1
                /\ acomp' = [acomp EXCEPT ![w] = NovoAcompanhamento(evento, clock')]
                /\ args' = [args EXCEPT ![w] = ArgsPedido(evento)]
                /\ pc' = [pc EXCEPT ![w] = "criar"]
                /\ ret' = None
                /\ UNCHANGED <<db, seen, last>>

(***************************************************************************)
(* Line 37 with AcompanhamentoRepository.criar: the INSERT and its commit  *)
(* are one step of the database; the unique index on id_pedido turns a     *)
(* second insert into IntegrityError, which criar re-raises as ValueError. *)
(***************************************************************************)
\* the row the INSERT adds: id_acompanhamento is the autoincrement key, and
\* valor_pago, a column _to_db_model gives no value to, is NULL
Inserted(row) ==
    [id_acompanhamento |-> Cardinality(db) + 1, valor_pago |-> None] @@ row

\* a table without the unique index on id_pedido
UniqueViolation_none(row) == FALSE

UniqueViolation(row) == \E r \in db : r.id_pedido = row.id_pedido

\* a criar that answers a duplicate with the stored record
criar_idempotente(w) ==
    /\ pc[w] = "criar"
    /\ LET a == acomp[w]
           row == _to_db_model(a)
       IN  IF UniqueViolation(row)
           THEN /\ UNCHANGED <<db, last>>
                /\ Finish(w, Outcome(args[w],
                                     _from_db_model(Loaded(a.id_pedido)), 1, 0))
           ELSE /\ db' = db \cup {Inserted(row)}
                /\ Finish(w, Outcome(args[w], _from_db_model(Inserted(row)), 1, 0))
                /\ last' = ret'
    /\ UNCHANGED clock

criar(w) ==
    /\ pc[w] = "criar"
    /\ LET a == acomp[w]
           row == _to_db_model(a)
       IN  IF UniqueViolation(row)
           THEN /\ UNCHANGED <<db, last>>
                /\ Finish(w, Outcome(args[w], JaExiste, 1, 0))
           ELSE /\ db' = db \cup {Inserted(row)}
                /\ Finish(w, Outcome(args[w], _from_db_model(Inserted(row)), 1, 0))
                /\ last' = ret'
    /\ UNCHANGED clock

(***************************************************************************)
(* AcompanhamentoService.processar_evento_pagamento, lines 45-59.          *)
(***************************************************************************)
\* payment approved moves the order to preparation whatever its status
AplicarPagamento_qualquer_status(a, evento, agora) ==
    LET a1 == [a EXCEPT !.status_pagamento = evento.status,
                        !.atualizado_em = agora]
    IN  IF evento.status = "PAGO"
        THEN [a1 EXCEPT !.status = "EM_PREPARACAO"]
        ELSE a1

\* any payment event moves a received order to preparation
AplicarPagamento_qualquer_evento(a, evento, agora) ==
    LET a1 == [a EXCEPT !.status_pagamento = evento.status,
                        !.atualizado_em = agora]
    IN  IF a1.status = "RECEBIDO"
        THEN [a1 EXCEPT !.status = "EM_PREPARACAO"]
        ELSE a1

\* a Paid event moves the order one step further each time it is applied
AplicarPagamento_avanca(a, evento, agora) ==
    LET a1 == [a EXCEPT !.status_pagamento = evento.status,
                        !.atualizado_em = agora]
    IN  IF evento.status = "PAGO" /\ a1.status \in {"RECEBIDO", "EM_PREPARACAO"}
        THEN [a1 EXCEPT !.status = IF @ = "RECEBIDO" THEN "EM_PREPARACAO"
                                   ELSE "PRONTO"]
        ELSE a1

\* a failed payment sends the order back to Received
AplicarPagamento_falhou(a, evento, agora) ==
    LET a1 == [a EXCEPT !.status_pagamento = evento.status,
                        !.atualizado_em = agora]
    IN  IF evento.status = "PAGO" /\ a1.status = "RECEBIDO"
        THEN [a1 EXCEPT !.status = "EM_PREPARACAO"]
        ELSE IF evento.status = "FALHOU"
        THEN [a1 EXCEPT !.status = "RECEBIDO"]
        ELSE a1

AplicarPagamento(a, evento, agora) ==
    LET a1 == [a EXCEPT !.status_pagamento = evento.status,
                        !.atualizado_em = agora]
    IN  IF evento.status = "PAGO" /\ a1.status = "RECEBIDO"
        THEN [a1 EXCEPT !.status = "EM_PREPARACAO"]
        ELSE a1

\* a handler that raises for an order without acompanhamento
processar_evento_pagamento_raise(w, evento) ==
    /\ Free(w)
    /\ LET a == buscar_por_id_pedido(evento.id_pedido)
       IN  IF a = None \/ IsException(a)
           THEN /\ Finish(w, Outcome(ArgsEarly("pagamento", evento.id_pedido),
                                     NaoEncontrado, 0, 0))
                /\ UNCHANGED <<db, clock, last>>
           ELSE /\ clock' = clock + 1
                /\ acomp' = [acomp EXCEPT ![w] = AplicarPagamento(a, evento, clock')]
                /\ args' = [args EXCEPT ![w] =
                                ArgsPagamento(evento, Loaded(evento.id_pedido))]
                /\ seen' = [seen EXCEPT ![w] = Loaded(evento.id_pedido)]
                /\ pc' = [pc EXCEPT ![w] = "atualizar"]
                /\ ret' = None
                /\ UNCHANGED <<db, last>>

processar_evento_pagamento(w, evento) ==
    /\ Free(w)
    /\ LET a == buscar_por_id_pedido(evento.id_pedido)
       IN  IF a = None \/ IsException(a)
           THEN /\ Finish(w, Outcome(ArgsEarly("pagamento", evento.id_pedido),
                                     a, 0, 0))
                /\ UNCHANGED <<db, clock, last>>
           ELSE /\ clock' = clock + 1
                /\ acomp' = [acomp EXCEPT ![w] = AplicarPagamento(a, evento, clock')]
                /\ args' = [args EXCEPT ![w] =
                                ArgsPagamento(evento, Loaded(evento.id_pedido))]
                /\ seen' = [seen EXCEPT ![w] = Loaded(evento.id_pedido)]
                /\ pc' = [pc EXCEPT ![w] = "atualizar"]
                /\ ret' = None
                /\ UNCHANGED <<db, last>>

(***************************************************************************)
(* AcompanhamentoService.atualizar_status_pedido, lines 69-82.             *)
(***************************************************************************)
\* an update that answers an unknown order with None, as the payment
\* handler does
atualizar_status_pedido_none(w, id_pedido, novo_status) ==
    /\ Free(w)
    /\ LET a == buscar_por_id_pedido(id_pedido)
       IN  IF a = None
           THEN /\ Finish(w, Outcome(ArgsEarly("status", id_pedido),
                                     None, 0, 0))
                /\ UNCHANGED <<db, clock, last>>
           ELSE IF IsException(a)
           THEN /\ Finish(w, Outcome(ArgsEarly("status", id_pedido), a, 0, 0))
                /\ UNCHANGED <<db, clock, last>>
           ELSE IF ~can_transition(a.status, novo_status)
           THEN /\ Finish(w, Outcome(ArgsRecusado(id_pedido, novo_status),
                                     TransicaoInvalida, 0, 0))
                /\ UNCHANGED <<db, clock, last>>
           ELSE /\ clock' = clock + 1
                /\ acomp' = [acomp EXCEPT ![w] =
                                [a EXCEPT !.status = novo_status,
                                          !.atualizado_em = clock']]
                /\ args' = [args EXCEPT ![w] =
                                ArgsStatus(id_pedido, novo_status, Loaded(id_pedido))]
                /\ seen' = [seen EXCEPT ![w] = Loaded(id_pedido)]
                /\ pc' = [pc EXCEPT ![w] = "atualizar"]
                /\ ret' = None
                /\ UNCHANGED <<db, last>>

atualizar_status_pedido(w, id_pedido, novo_status) ==
    /\ Free(w)
    /\ LET a == buscar_por_id_pedido(id_pedido)
       IN  IF a = None
           THEN /\ Finish(w, Outcome(ArgsEarly("status", id_pedido),
                                     NaoEncontrado, 0, 0))
                /\ UNCHANGED <<db, clock, last>>
           ELSE IF IsException(a)
           THEN /\ Finish(w, Outcome(ArgsEarly("status", id_pedido), a, 0, 0))
                /\ UNCHANGED <<db, clock, last>>
           ELSE IF ~can_transition(a.status, novo_status)
           THEN /\ Finish(w, Outcome(ArgsRecusado(id_pedido, novo_status),
                                     TransicaoInvalida, 0, 0))
                /\ UNCHANGED <<db, clock, last>>
           ELSE /\ clock' = clock + 1
                /\ acomp' = [acomp EXCEPT ![w] =
                                [a EXCEPT !.status = novo_status,
                                          !.atualizado_em = clock']]
                /\ args' = [args EXCEPT ![w] =
                                ArgsStatus(id_pedido, novo_status, Loaded(id_pedido))]
                /\ seen' = [seen EXCEPT ![w] = Loaded(id_pedido)]
                /\ pc' = [pc EXCEPT ![w] = "atualizar"]
                /\ ret' = None
                /\ UNCHANGED <<db, last>>

(***************************************************************************)
(* AcompanhamentoRepository.atualizar, lines 139-148: the SELECT of the    *)
(* existing row.  The session may still hold the row object the lookup     *)
(* loaded (identity map, or a repeatable-read snapshot), and then the      *)
(* SELECT does not refresh it; otherwise the row is loaded as it is now.   *)
(***************************************************************************)
atualizar_select(w) ==
    /\ pc[w] = "atualizar"
    /\ LET a == acomp[w]
       IN  IF RowsOf(a.id_pedido) = {}
           THEN Finish(w, Outcome(args[w], NaoEncontrado, 0, 1))
           ELSE /\ \E reload \in BOOLEAN :
                     seen' = [seen EXCEPT ![w] =
                                IF reload THEN Loaded(a.id_pedido) ELSE @]
                /\ pc' = [pc EXCEPT ![w] = "merge"]
                /\ ret' = None
                /\ UNCHANGED <<args, acomp>>
    /\ UNCHANGED <<db, clock, last>>

(***************************************************************************)
(* AcompanhamentoRepository.atualizar, lines 150-168: merge and commit.    *)
(* merge copies the new values onto the loaded row object and the flush    *)
(* writes, by primary key, the columns whose value differs from the        *)
(* loaded one.                                                             *)
(***************************************************************************)
Columns ==
    {"id_pedido", "cpf_cliente", "status", "status_pagamento",
     "tempo_estimado", "atualizado_em", "itens"}

\* a merge that writes the row under the next order id
MergeRow_outro_pedido(current, loaded, novo) ==
    [col \in DOMAIN current |->
        IF col = "id_pedido" THEN current[col] + 1
        ELSE IF col \in Columns /\ novo[col] # loaded[col]
        THEN novo[col] ELSE current[col]]

MergeRow(current, loaded, novo) ==
    [col \in DOMAIN current |->
        IF col \in Columns /\ novo[col] # loaded[col]
        THEN novo[col] ELSE current[col]]

\* an UPDATE without its WHERE clause: every row of the table is written
Updated_todos(loaded, novo) == {MergeRow(r, loaded, novo) : r \in db}

Updated(loaded, novo) ==
    {IF r.id_acompanhamento = loaded.id_acompanhamento
     THEN MergeRow(r, loaded, novo) ELSE r : r \in db}

atualizar_commit(w) ==
    /\ pc[w] = "merge"
    /\ LET a == acomp[w]
       IN  /\ db' = Updated(seen[w], _to_db_model(a))
           /\ Finish(w, Outcome(args[w],
                     _from_db_model(CHOOSE r \in db' :
                         r.id_acompanhamento = seen[w].id_acompanhamento), 0, 1))
           /\ last' = ret'
    /\ UNCHANGED clock

(***************************************************************************)
(* app/api/v1/acompanhamento.py: the status code an endpoint answers with, *)
(* from the outcome of the service call it awaits.                         *)
(***************************************************************************)
\* str.lower() on the messages of the exceptions
Lower(s) ==
    CASE s = JaExiste.msg -> "já existe acompanhamento para o pedido"
      [] s = NaoEncontrado.msg -> "acompanhamento não encontrado para pedido"
      [] s = TransicaoInvalida.msg -> "transição inválida"
      [] OTHER -> s

\* `trecho in texto` on these messages
Contem(texto, trecho) ==
    \/ /\ trecho = "não encontrado"
       /\ texto \in {NaoEncontrado.msg, Lower(NaoEncontrado.msg)}
    \/ /\ trecho = "já existe"
       /\ texto = Lower(JaExiste.msg)

\* PUT /{id_pedido}/status that answers 400 to every ValueError
http_atualizar_status_pedido_400(o) ==
    IF ~IsException(o.out) THEN 200
    ELSE IF o.out.exc = "ValueError" THEN 400
    ELSE 500

\* PUT /{id_pedido}/status, lines 107-116; an exception that is no
\* ValueError leaves the handler and the framework answers 500
http_atualizar_status_pedido(o) ==
    IF ~IsException(o.out) THEN 200
    ELSE IF o.out.exc = "ValueError"
    THEN (IF Contem(o.out.msg, "não encontrado") THEN 404 ELSE 400)
    ELSE 500

\* POST /evento-pedido, lines 223-261
http_processar_evento_pedido(o) ==
    IF ~IsException(o.out) THEN 200
    ELSE IF o.out.exc \in {"ValueError", "ValidationError"}
    THEN (IF Contem(Lower(o.out.msg), "já existe") THEN 409 ELSE 400)
    ELSE 500

\* POST /evento-pagamento, lines 285-317: the response is built from the
\* attributes of what the service returned, and None has none of them
http_processar_evento_pagamento(o) ==
    IF o.out = None THEN 500
    ELSE IF ~IsException(o.out) THEN 200
    ELSE IF o.out.exc = "ValueError"
    THEN (IF Contem(Lower(o.out.msg), "não encontrado") THEN 404 ELSE 400)
    ELSE 500

\* AcompanhamentoRepository.buscar_por_status: the lists the SELECT can
\* return, the rows whose status is one of the values of status_list by
\* atualizado_em ascending, rows with equal time in either order
buscar_por_status(status_list) ==
    LET status_strings ==
            {StatusPedidoValue[status_list[i]] : i \in 1..Len(status_list)}
        rows == {r \in db : r.status \in status_strings}
        n == Cardinality(rows)
        ordered == {l \in [1..n -> rows] :
                       /\ \A i, j \in 1..n : i # j => l[i] # l[j]
                       /\ \A i, j \in 1..n :
                             i < j => l[i].atualizado_em <= l[j].atualizado_em}
    IN  {[i \in 1..n |-> _from_db_model(l[i])] : l \in ordered}

\* the queue holds the orders in preparation only
buscar_fila_pedidos_em_preparacao(w) ==
    /\ Free(w)
    /\ \E fila \in buscar_por_status(<<"EM_PREPARACAO">>) :
          ret' = Outcome([op |-> "fila"], [fila |-> fila], 0, 0)
    /\ UNCHANGED <<db, clock, pc, args, acomp, seen, last>>

\* AcompanhamentoService.buscar_fila_pedidos: one SELECT, nothing written
buscar_fila_pedidos(w) ==
    /\ Free(w)
    /\ \E fila \in buscar_por_status(<<"EM_PREPARACAO", "PRONTO">>) :
          ret' = Outcome([op |-> "fila"], [fila |-> fila], 0, 0)
    /\ UNCHANGED <<db, clock, pc, args, acomp, seen, last>>

\* the calls of the workers overlap
Next ==
    \/ \E w \in Workers, evento \in EventosPedidoSimples :
            /\ processar_evento_pedido(w, evento) /\ clock' <= MaxClock
            /\ UNCHANGED <<qvars, cvars>>
    \/ \E w \in Workers : criar(w) /\ UNCHANGED <<qvars, cvars>>
    \/ \E w \in Workers, evento \in EventosPagamento :
            /\ processar_evento_pagamento(w, evento) /\ clock' <= MaxClock
            /\ UNCHANGED <<qvars, cvars>>
    \/ \E w \in Workers, id_pedido \in Orders, novo_status \in StatusPedido :
            /\ atualizar_status_pedido(w, id_pedido, novo_status)
            /\ clock' <= MaxClock
            /\ UNCHANGED <<qvars, cvars>>
    \/ \E w \in Workers : atualizar_select(w) /\ UNCHANGED <<qvars, cvars>>
    \/ \E w \in Workers : atualizar_commit(w) /\ UNCHANGED <<qvars, cvars>>

Spec == Init /\ [][Next]_vars

\* no call is in flight
Quiet == \A w \in Workers : pc[w] = "idle"

\* one call at a time: a call starts when no other is in flight, takes its
\* event from the given ones and reads the clock within the budget
SeqStep(eventos, budget) ==
    \/ \E w \in Workers, evento \in eventos :
            /\ Quiet /\ processar_evento_pedido(w, evento) /\ clock' <= budget
            /\ UNCHANGED <<qvars, cvars>>
    \/ \E w \in Workers : criar(w) /\ UNCHANGED <<qvars, cvars>>
    \/ \E w \in Workers, evento \in EventosPagamento :
            /\ Quiet /\ processar_evento_pagamento(w, evento) /\ clock' <= budget
            /\ UNCHANGED <<qvars, cvars>>
    \/ \E w \in Workers, id_pedido \in Orders, novo_status \in StatusPedido :
            /\ Quiet
            /\ atualizar_status_pedido(w, id_pedido, novo_status)
            /\ clock' <= budget
            /\ UNCHANGED <<qvars, cvars>>
    \/ \E w \in Workers : atualizar_select(w) /\ UNCHANGED <<qvars, cvars>>
    \/ \E w \in Workers : atualizar_commit(w) /\ UNCHANGED <<qvars, cvars>>
    \/ \E w \in Workers :
            Quiet /\ buscar_fila_pedidos(w) /\ UNCHANGED <<qvars, cvars>>

\* the calls of the workers overlap over one reading of the clock more than
\* in Next
LongNext ==
    \/ \E w \in Workers, evento \in EventosPedidoSimples :
            /\ processar_evento_pedido(w, evento) /\ clock' <= MaxClock + 1
            /\ UNCHANGED <<qvars, cvars>>
    \/ \E w \in Workers : criar(w) /\ UNCHANGED <<qvars, cvars>>
    \/ \E w \in Workers, evento \in EventosPagamento :
            /\ processar_evento_pagamento(w, evento) /\ clock' <= MaxClock + 1
            /\ UNCHANGED <<qvars, cvars>>
    \/ \E w \in Workers, id_pedido \in Orders, novo_status \in StatusPedido :
            /\ atualizar_status_pedido(w, id_pedido, novo_status)
            /\ clock' <= MaxClock + 1
            /\ UNCHANGED <<qvars, cvars>>
    \/ \E w \in Workers : atualizar_select(w) /\ UNCHANGED <<qvars, cvars>>
    \/ \E w \in Workers : atualizar_commit(w) /\ UNCHANGED <<qvars, cvars>>

LongSpec == Init /\ [][LongNext]_vars

\* the orders of the kitchen: a queue has an order of its records only
\* where there are two of them
PedidosCozinha == 1..(MaxOrders + 1)

EventosPedidoCozinha ==
    {[e EXCEPT !.id_pedido = o] : e \in EventosPedidoSimples, o \in PedidosCozinha}

\* one call at a time on the orders of the kitchen, with reads of the queue
CozinhaNext ==
    \/ \E w \in Workers, evento \in EventosPedidoCozinha :
            /\ Quiet /\ processar_evento_pedido(w, evento) /\ clock' <= MaxCalls
            /\ UNCHANGED <<qvars, cvars>>
    \/ \E w \in Workers : criar(w) /\ UNCHANGED <<qvars, cvars>>
    \/ \E w \in Workers, id_pedido \in PedidosCozinha, status \in StatusPagamento :
            /\ Quiet
            /\ processar_evento_pagamento(w, [id_pedido |-> id_pedido,
                                              status |-> status])
            /\ clock' <= MaxCalls
            /\ UNCHANGED <<qvars, cvars>>
    \/ \E w \in Workers, id_pedido \in PedidosCozinha, novo_status \in StatusPedido :
            /\ Quiet
            /\ atualizar_status_pedido(w, id_pedido, novo_status)
            /\ clock' <= MaxCalls
            /\ UNCHANGED <<qvars, cvars>>
    \/ \E w \in Workers : atualizar_select(w) /\ UNCHANGED <<qvars, cvars>>
    \/ \E w \in Workers : atualizar_commit(w) /\ UNCHANGED <<qvars, cvars>>
    \/ \E w \in Workers :
            Quiet /\ buscar_fila_pedidos(w) /\ UNCHANGED <<qvars, cvars>>

CozinhaSpec == Init /\ [][CozinhaNext]_vars

\* one call at a time on the orders of the kitchen, payments and status
\* updates only
DoisPedidosNext ==
    \/ \E w \in Workers, evento \in EventosPedidoCozinha :
            /\ Quiet /\ processar_evento_pedido(w, evento) /\ clock' <= MaxClock
            /\ UNCHANGED <<qvars, cvars>>
    \/ \E w \in Workers : criar(w) /\ UNCHANGED <<qvars, cvars>>
    \/ \E w \in Workers, id_pedido \in PedidosCozinha, status \in StatusPagamento :
            /\ Quiet
            /\ processar_evento_pagamento(w, [id_pedido |-> id_pedido,
                                              status |-> status])
            /\ clock' <= MaxClock
            /\ UNCHANGED <<qvars, cvars>>
    \/ \E w \in Workers, id_pedido \in PedidosCozinha, novo_status \in StatusPedido :
            /\ Quiet
            /\ atualizar_status_pedido(w, id_pedido, novo_status)
            /\ clock' <= MaxClock
            /\ UNCHANGED <<qvars, cvars>>
    \/ \E w \in Workers : atualizar_select(w) /\ UNCHANGED <<qvars, cvars>>
    \/ \E w \in Workers : atualizar_commit(w) /\ UNCHANGED <<qvars, cvars>>

DoisPedidosSpec == Init /\ [][DoisPedidosNext]_vars

\* long lives of an order: one payload per order, MaxCalls readings
SeqNext == SeqStep(EventosPedidoSimples, MaxCalls)

SeqSpec == Init /\ [][SeqNext]_vars

\* what the upstream service can send: the payloads above and the ones
\* with no item
PayloadsRecebidos ==
    PayloadsPedido
        \cup [id_pedido : Orders, cpf_cliente : Cpfs, itens : {<<>>},
              tempo_estimado : TempoInputs]

\* the events that EventoPedido(...) builds from them
EventosConstruidos ==
    {e \in {EventoPedido(payload) : payload \in PayloadsRecebidos} :
        "exc" \notin DOMAIN e}

\* EventoPedido(...) raises on the payload: the caller of the service gets
\* the ValidationError before it has an event to hand over
EventoPedido_recusado(w, payload) ==
    /\ Free(w)
    /\ "exc" \in DOMAIN EventoPedido(payload)
    /\ ret' = Outcome([op |-> "validar", id_pedido |-> payload.id_pedido],
                      EventoPedido(payload), 0, 0)
    /\ UNCHANGED <<db, clock, pc, args, acomp, seen, last>>

\* every payload of the order-created event, MaxClock readings
PayloadNext ==
    \/ SeqStep(EventosConstruidos, MaxClock)
    \/ \E w \in Workers, payload \in PayloadsRecebidos :
            /\ Quiet /\ EventoPedido_recusado(w, payload)
            /\ UNCHANGED <<qvars, cvars>>

PayloadSpec == Init /\ [][PayloadNext]_vars

(***************************************************************************)
(* app/worker/sqs_consumer.py and app/adapters/event_adapter.py: the task  *)
(* consumir_fila of one queue.  A message is an envelope {event_type,      *)
(* data}; a message that is not deleted stays in the queue and is          *)
(* delivered again by a later receive.                                     *)
(***************************************************************************)
\* messages the queue holds at once
MaxFila == 2

\* SQSClient.receive_messages: MaxNumberOfMessages
max_messages == 5

\* the payment envelopes of the event source, under both names of the event
EnvelopesPagamento ==
    [event_type : {"pagamento_confirmado", "pagamento_atualizado"},
     data : [id_pedido : Orders,
             status : {StatusPagamentoValue[m] : m \in StatusPagamento}]]

\* the status envelopes: the status the kitchen sets first and one that is
\* no value of StatusPedido
EnvelopesStatus ==
    [event_type : {"pedido_status_atualizado"},
     data : [id_pedido : Orders,
             status : {"Em preparação", "entregue"}]]

\* the order envelopes, with one product
EnvelopesPedido ==
    [event_type : {"pedido_criado"},
     data : [id_pedido : Orders, cliente : Cpfs, status : {"Recebido"},
             produtos : {<<[id |-> 1, quantidade |-> 1, preco |-> 10]>>}]]

\* envelopes of a type the adapter does not know
EnvelopesDesconhecidos ==
    [event_type : {"evento_invalido"}, data : [id_pedido : Orders]]

\* what the order queue is sent
EnvelopesFilaPedido ==
    EnvelopesStatus \cup EnvelopesPedido \cup EnvelopesDesconhecidos

\* an adapter that hands an envelope of a type it does not know on
DesconhecidoError_aceito == [event_type |-> "desconhecido", data |-> None]

\* event_adapter.py, lines 46-47
DesconhecidoError == Raise("ValueError", "Tipo de evento desconhecido")

\* event_adapter.py, line 27: the name ItemPedidoEvent is bound nowhere
ItemPedidoEventError ==
    Raise("NameError", "name 'ItemPedidoEvent' is not defined")

\* adaptar_evento_generico: the event type and the event built from data
adaptar_evento_generico(body) ==
    IF body.event_type = "pagamento_confirmado"
    THEN [event_type |-> body.event_type,
          data |-> [id_pedido |-> body.data.id_pedido,
                    status |-> StatusPagamentoOf(body.data.status)]]
    ELSE IF body.event_type = "pedido_criado"
    THEN IF body.data.produtos # <<>>
         THEN ItemPedidoEventError
         ELSE EventoPedido([id_pedido |-> body.data.id_pedido,
                            cpf_cliente |-> body.data.cliente,
                            itens |-> <<>>,
                            tempo_estimado |-> NoTempo])
    ELSE IF body.event_type = "pedido_status_atualizado"
    THEN IF StatusPedidoCall(body.data.status) = NoTempo
         THEN StatusInvalido
         ELSE [event_type |-> body.event_type,
               data |-> [id_pedido |-> body.data.id_pedido,
                         status |-> StatusPedidoCall(body.data.status)]]
    ELSE DesconhecidoError

\* consumir_fila, lines 36-48: the service method an event type is handed to
Dispatch(event_type) ==
    CASE event_type = "pagamento_atualizado" -> "processar_evento_pagamento"
      [] event_type = "pedido_criado" -> "processar_evento_pedido"
      [] event_type = "pedido_status_atualizado" -> "atualizar_status_pedido"
      [] OTHER -> "ignorado"

\* what the loop did with a message: the service call it made, the
\* exception line 52 caught, and whether line 50 deleted the message
Visto(m, chamada, erro, deletada) ==
    [msg |-> m, chamada |-> chamada, erro |-> erro, deletada |-> deletada]

SemChamada == [metodo |-> "nenhum"]

ChamadaStatus(data) ==
    [metodo |-> "atualizar_status_pedido", id_pedido |-> data.id_pedido,
     novo_status |-> data.status]

\* SQSClient.send_message: the event source puts a message into the queue
send_message(m) ==
    /\ m \notin sqs
    /\ Cardinality(sqs) < MaxFila
    /\ sqs' = sqs \cup {m}
    /\ visto' = None
    /\ UNCHANGED <<consumidor, lote>>

\* consumir_fila, lines 27-28: AcompanhamentoService() is called without the
\* repository its __init__ requires, so with the class of the repository
\* the task ends in TypeError before its loop; the loop is entered where the
\* name is bound to a service that can be built without arguments, as the
\* tests of the consumer bind it
consumir_fila ==
    /\ consumidor = "novo"
    /\ \E patched \in BOOLEAN :
          consumidor' = IF patched THEN "loop" ELSE "TypeError"
    /\ visto' = None
    /\ UNCHANGED <<sqs, lote, svars, cvars>>

\* the batches a receive can return: up to max_messages of the messages in
\* the queue, in any order
Lotes(fila) ==
    UNION { {l \in [1..n -> fila] : \A i, j \in 1..n : l[i] = l[j] => i = j} :
            n \in 1..(IF Cardinality(fila) < max_messages
                      THEN Cardinality(fila) ELSE max_messages) }

\* consumir_fila, line 31: a receive that returns the batch
receive_messages(batch) ==
    /\ consumidor = "loop"
    /\ batch \in Lotes(sqs)
    /\ lote' = batch
    /\ consumidor' = "for"
    /\ visto' = None
    /\ UNCHANGED <<sqs, svars, cvars>>

\* a loop that gives the batch up at the first message that raises
Seguir_abandona(falhou) == IF falhou THEN <<>> ELSE Tail(lote)

\* consumir_fila, lines 32 and 52-53: after a message, raised on or not, the
\* for loop goes on with the rest of the batch
Seguir(falhou) == Tail(lote)

\* a loop that deletes the message it could not parse
consumir_mensagem_deleta ==
    /\ consumidor = "for"
    /\ lote # <<>>
    /\ LET m == Head(lote)
           r == adaptar_evento_generico(m)
       IN  /\ IsException(r) \/ Dispatch(r.event_type) = "ignorado"
           /\ visto' = Visto(m, SemChamada, IF IsException(r) THEN r ELSE None,
                             TRUE)
           /\ lote' = Seguir(IsException(r))
           /\ sqs' = sqs \ {m}
    /\ UNCHANGED <<consumidor, svars, cvars>>

\* consumir_fila, lines 33-53, for the message at the head of the batch when
\* its handling calls no service method: a message the adapter raises on is
\* left in the queue (line 52), one whose event type no branch takes is
\* deleted (lines 47-50)
consumir_mensagem ==
    /\ consumidor = "for"
    /\ lote # <<>>
    /\ LET m == Head(lote)
           r == adaptar_evento_generico(m)
       IN  IF IsException(r)
           THEN /\ visto' = Visto(m, SemChamada, r, FALSE)
                /\ lote' = Seguir(TRUE)
                /\ UNCHANGED sqs
           ELSE /\ Dispatch(r.event_type) = "ignorado"
                /\ visto' = Visto(m, SemChamada, None, TRUE)
                /\ lote' = Seguir(FALSE)
                /\ sqs' = sqs \ {m}
    /\ UNCHANGED <<consumidor, svars, cvars>>

\* a loop that deletes the message whether the call returned or raised, as
\* with delete_message in a finally clause
Concluir_deleta(m, chamada) ==
    IF ret' = None
    THEN /\ consumidor' = "await"
         /\ visto' = None
         /\ UNCHANGED <<sqs, lote>>
    ELSE /\ consumidor' = "for"
         /\ visto' = Visto(m, chamada, IF IsException(ret'.out) THEN ret'.out
                                       ELSE None, TRUE)
         /\ sqs' = sqs \ {m}
         /\ lote' = Seguir(IsException(ret'.out))

\* consumir_fila, lines 50-53, once the awaited service call has
\* returned or raised: a call that raised leaves the message in the queue, a
\* call that returned is followed by delete_message
Concluir(m, chamada) ==
    IF ret' = None
    THEN /\ consumidor' = "await"
         /\ visto' = None
         /\ UNCHANGED <<sqs, lote>>
    ELSE /\ consumidor' = "for"
         /\ visto' = Visto(m, chamada, IF IsException(ret'.out) THEN ret'.out
                                       ELSE None, ~IsException(ret'.out))
         /\ sqs' = IF IsException(ret'.out) THEN sqs ELSE sqs \ {m}
         /\ lote' = Seguir(IsException(ret'.out))

\* a store call that fails: the driver's exception for a lost connection
ErroBanco == Raise("OperationalError", "connection lost")

\* atualizar_status_pedido, line 69, when its lookup fails in the store: the
\* service has no handler around it
atualizar_status_pedido_erro(w, id_pedido, novo_status) ==
    /\ Free(w)
    /\ Finish(w, Outcome(ArgsEarly("status", id_pedido), ErroBanco, 0, 0))
    /\ UNCHANGED <<db, clock, last>>

\* AcompanhamentoRepository.atualizar when one of its statements fails: the
\* SELECT or the commit, which leave the table as it was, or the SELECT
\* after the commit
atualizar_erro(w) ==
    /\ pc[w] \in {"atualizar", "merge"}
    /\ \E gravou \in BOOLEAN :
          /\ gravou => pc[w] = "merge"
          /\ db' = IF gravou THEN Updated(seen[w], _to_db_model(acomp[w]))
                   ELSE db
    /\ Finish(w, Outcome(args[w], ErroBanco, 0, 1))
    /\ UNCHANGED <<clock, last>>

\* consumir_fila, lines 42-46: the message at the head of the batch is a
\* status update and the service is called with its order and status
consumir_status(w) ==
    /\ consumidor = "for"
    /\ lote # <<>>
    /\ LET m == Head(lote)
           r == adaptar_evento_generico(m)
       IN  /\ ~IsException(r)
           /\ Dispatch(r.event_type) = "atualizar_status_pedido"
           /\ atualizar_status_pedido(w, r.data.id_pedido, r.data.status)
           /\ Concluir(m, ChamadaStatus(r.data))
    /\ UNCHANGED cvars

\* the same call when the lookup of the service fails in the store
consumir_status_erro(w) ==
    /\ consumidor = "for"
    /\ lote # <<>>
    /\ LET m == Head(lote)
           r == adaptar_evento_generico(m)
       IN  /\ ~IsException(r)
           /\ Dispatch(r.event_type) = "atualizar_status_pedido"
           /\ atualizar_status_pedido_erro(w, r.data.id_pedido, r.data.status)
           /\ Concluir(m, ChamadaStatus(r.data))
    /\ UNCHANGED cvars

\* the call the consumer awaits, whose message heads the batch
Aguardada == ChamadaStatus(adaptar_evento_generico(Head(lote)).data)

\* the awaited call of the consumer goes on in the repository
consumir_await(w) ==
    /\ consumidor = "await"
    /\ atualizar_select(w) \/ atualizar_commit(w)
    /\ Concluir(Head(lote), Aguardada)
    /\ UNCHANGED cvars

\* the awaited call fails in the repository
consumir_await_erro(w) ==
    /\ consumidor = "await"
    /\ atualizar_erro(w)
    /\ Concluir(Head(lote), Aguardada)
    /\ UNCHANGED cvars

\* consumir_fila, line 55: the batch is done and the loop receives again
fim_do_lote ==
    /\ consumidor = "for"
    /\ lote = <<>>
    /\ consumidor' = "loop"
    /\ visto' = None
    /\ UNCHANGED <<sqs, lote, svars, cvars>>

\* the part of the queue and its consumer a call over HTTP leaves alone
SemConsumidor == visto' = None /\ UNCHANGED <<sqs, consumidor, lote>>

\* the consumer of a queue that is sent the envelopes, next to callers
\* that create orders over HTTP
FilaStep(envelopes) ==
    \/ \E m \in envelopes : send_message(m) /\ UNCHANGED <<svars, cvars>>
    \/ consumir_fila
    \/ \E batch \in Lotes(sqs) : receive_messages(batch)
    \/ consumir_mensagem
    \/ fim_do_lote
    \/ \E w \in Workers, evento \in EventosPedidoSimples :
            /\ Quiet /\ processar_evento_pedido(w, evento) /\ clock' <= MaxClock
            /\ SemConsumidor /\ UNCHANGED cvars
    \/ \E w \in Workers : criar(w) /\ SemConsumidor /\ UNCHANGED cvars

\* the consumer of the payment queue
ConsumerNext == FilaStep(EnvelopesPagamento)

\* the event loop runs the consumer task and every started coroutine on;
\* a message that stays in the queue is received again
Progresso ==
    /\ WF_vars(consumir_fila)
    /\ WF_vars(consumir_mensagem)
    /\ WF_vars(fim_do_lote)
    /\ WF_vars(\E w \in Workers : criar(w) /\ SemConsumidor /\ UNCHANGED cvars)

Entrega(envelopes) ==
    \A m \in envelopes :
        SF_vars(\E batch \in Lotes(sqs) :
                    (\E i \in DOMAIN batch : batch[i] = m)
                    /\ receive_messages(batch))

ConsumerSpec ==
    /\ Init
    /\ [][ConsumerNext]_vars
    /\ Progresso
    /\ Entrega(EnvelopesPagamento)

\* the consumer of the order queue
PedidoNext ==
    \/ FilaStep(EnvelopesFilaPedido)
    \/ \E w \in Workers : consumir_status(w)
    \/ \E w \in Workers : consumir_await(w)

PedidoSpec ==
    /\ Init
    /\ [][PedidoNext]_vars
    /\ Progresso
    /\ WF_vars(\E w \in Workers : consumir_status(w))
    /\ WF_vars(\E w \in Workers : consumir_await(w))
    /\ Entrega(EnvelopesFilaPedido)

\* the consumer of a queue of status updates over a store whose calls can
\* fail
FalhaNext ==
    \/ FilaStep(EnvelopesStatus)
    \/ \E w \in Workers : consumir_status(w) /\ clock' <= MaxClock
    \/ \E w \in Workers : consumir_await(w)
    \/ \E w \in Workers : consumir_status_erro(w)
    \/ \E w \in Workers : consumir_await_erro(w)

\* a call that is awaited returns or raises; which of the two is up to the
\* store
FalhaSpec ==
    /\ Init
    /\ [][FalhaNext]_vars
    /\ Progresso
    /\ WF_vars(\E w \in Workers : consumir_status(w) \/ consumir_status_erro(w))
    /\ WF_vars(\E w \in Workers : consumir_await(w) \/ consumir_await_erro(w))
    /\ Entrega(EnvelopesStatus)

(***************************************************************************)
(* The estimate functions called on their own, as the unit tests of the    *)
(* service and the API call them: calcular_tempo_estimado_por_itens on a   *)
(* list of items of the shapes its branches tell apart,                    *)
(* calcular_tempo_estimado on a record and get_estimated_time_minutes on a *)
(* status.                                                                 *)
(***************************************************************************)
MaxItens == 2

\* the categories an item carries; NoTempo is a category that is None
Categorias ==
    {"LANCHE", "lanche", "ACOMPANHAMENTO", "Bebida", "sobremesa", "FOO", "",
     NoTempo}

Quantidades == {2, 1200}

\* the attributes of an item under the given names of category and
\* quantity, each of the two present or not
Atributos(ncat, nqtd) ==
    LET base == ("id_produto" :> 1)
    IN  {base}
        \cup {(ncat :> c) @@ base : c \in Categorias}
        \cup {(nqtd :> q) @@ base : q \in Quantidades}
        \cup {(ncat :> c) @@ (nqtd :> q) @@ base :
                  c \in Categorias, q \in Quantidades}

Objetos ==
    Atributos("categoria", "quantidade") \cup Atributos("category", "quantity")

Dicts == {[keys |-> a] : a \in Objetos}

ItensCalc == Objetos \cup Dicts

\* the lists of n items
ListasDeItens(n) == [1..n -> ItensCalc]

\* acompanhamento.status: a member of StatusPedido, its value, or neither
StatusInputs ==
    StatusPedido \cup {StatusPedidoValue[m] : m \in StatusPedido}
        \cup {"Cancelado"}

\* novo_status: a member of StatusPedido, its value, None or a string
\* that is no status
NotificarInputs ==
    StatusPedido \cup {StatusPedidoValue[m] : m \in StatusPedido}
        \cup {NoTempo, "STATUS_INEXISTENTE", "pronto"}

CalcInit ==
    /\ InitApp
    /\ \/ \E n \in 0..MaxItens : \E itens \in ListasDeItens(n) :
              entrada = [fn |-> "calcular_tempo_estimado_por_itens",
                         arg |-> itens]
       \/ \E status \in StatusInputs :
              entrada = [fn |-> "calcular_tempo_estimado",
                         arg |-> [status |-> status]]
       \/ \E status \in StatusPedido \cup {NoTempo, "CANCELADO"} :
              entrada = [fn |-> "get_estimated_time_minutes", arg |-> status]
       \/ \E novo_status \in NotificarInputs :
              entrada = [fn |-> "_deve_notificar_cliente", arg |-> novo_status]
       \/ \E current_status \in StatusInputs \cup {NoTempo} :
              entrada = [fn |-> "get_next_valid_states", arg |-> current_status]
    /\ resultado = None

AttributeError ==
    Raise("AttributeError", "'NoneType' object has no attribute 'upper'")

Retorno(valor) == [valor |-> valor]

CalcularPorItens ==
    /\ resultado = None
    /\ entrada.fn = "calcular_tempo_estimado_por_itens"
    /\ resultado' =
          IF \E i \in 1..Len(entrada.arg) : UpperRaises(entrada.arg[i])
          THEN AttributeError
          ELSE Retorno(calcular_tempo_estimado_por_itens(entrada.arg))
    /\ UNCHANGED <<entrada, svars, qvars>>

CalcularPorStatus ==
    /\ resultado = None
    /\ entrada.fn = "calcular_tempo_estimado"
    /\ resultado' =
          IF StatusPedidoCall(entrada.arg.status) = NoTempo
          THEN StatusInvalido
          ELSE Retorno(calcular_tempo_estimado(entrada.arg))
    /\ UNCHANGED <<entrada, svars, qvars>>

EstimatedTimeMinutes ==
    /\ resultado = None
    /\ entrada.fn = "get_estimated_time_minutes"
    /\ resultado' = Retorno(get_estimated_time_minutes(entrada.arg))
    /\ UNCHANGED <<entrada, svars, qvars>>

DeveNotificarCliente ==
    /\ resultado = None
    /\ entrada.fn = "_deve_notificar_cliente"
    /\ resultado' = Retorno(_deve_notificar_cliente(entrada.arg))
    /\ UNCHANGED <<entrada, svars, qvars>>

GetNextValidStates ==
    /\ resultado = None
    /\ entrada.fn = "get_next_valid_states"
    /\ resultado' = Retorno(get_next_valid_states(entrada.arg))
    /\ UNCHANGED <<entrada, svars, qvars>>

CalcNext ==
    \/ CalcularPorItens
    \/ CalcularPorStatus
    \/ EstimatedTimeMinutes
    \/ DeveNotificarCliente
    \/ GetNextValidStates

CalcSpec == CalcInit /\ [][CalcNext]_vars

TypeOK ==
    /\ clock \in Nat
    /\ \A w \in Workers : pc[w] \in {"idle", "criar", "atualizar", "merge"}
    /\ \A r \in db : r.atualizado_em \in 1..clock

(***************************************************************************)
(* Properties.                                                             *)
(***************************************************************************)
HasOutcome == ret # None

\* the three legal edges of the order status graph
LegalEdges ==
    { <<"RECEBIDO", "EM_PREPARACAO">>, <<"EM_PREPARACAO", "PRONTO">>,
      <<"PRONTO", "FINALIZADO">> }

\* no other call wrote the record since worker w looked it up
Undisturbed(w) == args[w].found \in db

RowsOfNext(id_pedido) == {r \in db' : r.id_pedido = id_pedido}

\* C1: atualizar_status_pedido on an existing record goes on to the store
\* update exactly for the three legal (current, requested) pairs, and the
\* update then stores the requested status; for every other pair it raises
\* "Transição inválida" without calling the store update and leaves the
\* table as it was.
C1_UpdateStatus ==
    [][\A w \in Workers :
        /\ \A id \in Orders, n \in StatusPedido :
              (atualizar_status_pedido(w, id, n) /\ RowsOf(id) # {}) =>
                  IF <<StatusPedidoOf(Loaded(id).status), n>> \in LegalEdges
                  THEN /\ pc'[w] = "atualizar"
                       /\ acomp'[w].status = n
                       /\ db' = db
                  ELSE /\ pc'[w] = "idle"
                       /\ ret'.out = TransicaoInvalida
                       /\ ret'.atualizar = 0
                       /\ db' = db
        /\ (atualizar_select(w) /\ args[w].op = "status") => pc'[w] = "merge"
        /\ (atualizar_commit(w) /\ args[w].op = "status" /\ Undisturbed(w)) =>
              /\ ret'.atualizar = 1
              /\ ~IsException(ret'.out)
              /\ ret'.out.status = args[w].novo_status
              /\ RowsOfNext(args[w].id_pedido) # {}
              /\ \A r \in RowsOfNext(args[w].id_pedido) :
                    /\ r.status = StatusPedidoValue[args[w].novo_status]
                    /\ r.atualizado_em # args[w].found.atualizado_em
      ]_vars

\* a status update that went through the store and finished the order
C1_Witness ==
    /\ HasOutcome
    /\ ret.args.op = "status"
    /\ ret.atualizar = 1
    /\ ~IsException(ret.out)
    /\ ret.out.status = "FINALIZADO"
    /\ \E r \in db : r.status = "Finalizado"

\* C2: can_transition is true exactly for Received->InPreparation,
\* InPreparation->Ready and Ready->Completed and false for the 13 other
\* ordered pairs (self-loops, skips, backward edges, edges out of Completed);
\* so every status update it has let through is along a legal edge.
C2_CanTransition ==
    /\ \A c \in StatusPedido, n \in StatusPedido :
          can_transition(c, n) <=> (<<c, n>> \in LegalEdges)
    /\ Cardinality({e \in StatusPedido \X StatusPedido :
                       ~can_transition(e[1], e[2])}) = 13
    /\ \A w \in Workers :
          (pc[w] # "idle" /\ args[w].op = "status") =>
              <<StatusPedidoOf(args[w].found.status), args[w].novo_status>>
                  \in LegalEdges

\* the check refused a request on a finished order, which the three legal
\* transitions had brought there
C2_Witness ==
    /\ HasOutcome
    /\ ret.args.op = "status"
    /\ ret.out = TransicaoInvalida
    /\ \E r \in db : r.status = "Finalizado"

\* the status the payment rule gives an order that had status cur
StatusAfterPayment(cur, paymentStatus) ==
    IF paymentStatus = "PAGO" /\ cur = "RECEBIDO" THEN "EM_PREPARACAO" ELSE cur

\* C3: processar_evento_pagamento on an existing record always sets the
\* payment status to the event's; a Paid event moves a Received order to
\* InPreparation and leaves the order status of an InPreparation, Ready or
\* Completed order as it is, in the object handed to the store update and in
\* the row the update writes.
C3_HandlePayment ==
    [][\A w \in Workers :
        /\ \A ev \in EventosPagamento :
              (processar_evento_pagamento(w, ev) /\ RowsOf(ev.id_pedido) # {}) =>
                  LET cur == StatusPedidoOf(Loaded(ev.id_pedido).status)
                  IN  /\ pc'[w] = "atualizar"
                      /\ acomp'[w].status_pagamento = ev.status
                      /\ (ev.status = "PAGO" /\ cur = "RECEBIDO")
                            => acomp'[w].status = "EM_PREPARACAO"
                      /\ (ev.status = "PAGO" /\ cur # "RECEBIDO")
                            => acomp'[w].status = cur
        /\ (atualizar_select(w) /\ args[w].op = "pagamento") => pc'[w] = "merge"
        /\ (atualizar_commit(w) /\ args[w].op = "pagamento" /\ Undisturbed(w)) =>
              LET ev == args[w].evento
                  cur == StatusPedidoOf(args[w].found.status)
              IN  /\ ret'.atualizar = 1
                  /\ ~IsException(ret'.out)
                  /\ ret'.out.status_pagamento = ev.status
                  /\ RowsOfNext(ev.id_pedido) # {}
                  /\ \A r \in RowsOfNext(ev.id_pedido) :
                        /\ r.status_pagamento = StatusPagamentoValue[ev.status]
                        /\ ev.status = "PAGO" =>
                              r.status = StatusPedidoValue[
                                  IF cur = "RECEBIDO" THEN "EM_PREPARACAO" ELSE cur]
      ]_vars

\* a Paid event has moved a Received order to InPreparation
C3_Witness ==
    /\ HasOutcome
    /\ ret.args.op = "pagamento"
    /\ ret.atualizar = 1
    /\ ret.args.evento.status = "PAGO"
    /\ ret.args.found.status = "Recebido"
    /\ ~IsException(ret.out)
    /\ \E r \in db : /\ r.id_pedido = ret.args.id_pedido
                     /\ r.status = "Em preparação"
                     /\ r.status_pagamento = "pago"

\* C4: a payment event with status Pending or Failed never changes the order
\* status, whatever it is; it changes the payment status and atualizado_em
\* and nothing else of the record.
C4_OtherPaymentStatus ==
    [][\A w \in Workers :
        /\ \A ev \in EventosPagamento :
              (/\ processar_evento_pagamento(w, ev)
               /\ RowsOf(ev.id_pedido) # {}
               /\ ev.status \in {"PENDENTE", "FALHOU"}) =>
                  LET a == _from_db_model(Loaded(ev.id_pedido))
                  IN  /\ acomp'[w].status = a.status
                      /\ \A f \in DOMAIN a \ {"status_pagamento", "atualizado_em"} :
                            acomp'[w][f] = a[f]
        /\ (/\ atualizar_commit(w)
            /\ args[w].op = "pagamento"
            /\ args[w].evento.status \in {"PENDENTE", "FALHOU"}
            /\ Undisturbed(w)) =>
              /\ Cardinality(db') = Cardinality(db)
              /\ \A r \in RowsOfNext(args[w].id_pedido) :
                    /\ r.status = args[w].found.status
                    /\ \A col \in DOMAIN r \ {"status_pagamento", "atualizado_em"} :
                          r[col] = args[w].found[col]
      ]_vars

\* a Failed event was applied to an order in preparation, which stayed there
C4_Witness ==
    /\ HasOutcome
    /\ ret.args.op = "pagamento"
    /\ ret.atualizar = 1
    /\ ret.args.evento.status = "FALHOU"
    /\ ret.args.found.status = "Em preparação"
    /\ \E r \in db : /\ r.id_pedido = ret.args.id_pedido
                     /\ r.status = "Em preparação"
                     /\ r.status_pagamento = "falhou"

\* C5: processar_evento_pedido called for an id_pedido whose record an
\* earlier call has created returns the stored record and leaves the table
\* as it is, calling neither repository.criar nor repository.atualizar; when
\* it directly follows the creating call it returns the record that call
\* returned, and over the two calls criar is called at most once and
\* atualizar never.
C5_OrderCreatedIdempotent ==
    [][\A w \in Workers, evento \in EventosPedido :
        (processar_evento_pedido(w, evento) /\ RowsOf(evento.id_pedido) # {}) =>
            /\ pc'[w] = "idle"
            /\ ret'.out = _from_db_model(Loaded(evento.id_pedido))
            /\ db' = db
            /\ ret'.criar = 0
            /\ ret'.atualizar = 0
            /\ (last.args.op = "pedido" /\ last.args.id_pedido = evento.id_pedido) =>
                  /\ ret'.out = last.out
                  /\ last.criar + ret'.criar <= 1
                  /\ last.atualizar + ret'.atualizar = 0
      ]_vars

\* a call found the record of an earlier call and returned it
C5_Witness ==
    /\ HasOutcome
    /\ ret.args.op = "pedido"
    /\ ret.criar = 0
    /\ ~IsException(ret.out)
    /\ ret.out = _from_db_model(Loaded(ret.args.id_pedido))

\* the record C6 expects processar_evento_pedido to hand to repository.criar
ExpectedNovo(evento, tempo, a) ==
    /\ a.status = "RECEBIDO"
    /\ a.status_pagamento = "PENDENTE"
    /\ a.id_pedido = evento.id_pedido
    /\ a.cpf_cliente = evento.cpf_cliente
    /\ a.itens = evento.itens
    /\ a.tempo_estimado = tempo

\* C6 as stated: the new record has status Received, payment Pending, the
\* event's id_pedido, cpf_cliente and itens, and tempo_estimado equal to the
\* event's whenever the event carries one, computed from the items otherwise.
C6_NewRecord_Original ==
    [][\A w \in Workers, evento \in EventosPedido :
        (processar_evento_pedido(w, evento) /\ RowsOf(evento.id_pedido) = {}) =>
            /\ pc'[w] = "criar"
            /\ ExpectedNovo(evento,
                   IF evento.tempo_estimado # NoTempo
                   THEN evento.tempo_estimado
                   ELSE calcular_tempo_estimado_por_itens(evento.itens),
                   acomp'[w])
      ]_vars

\* C6 amended: tempo_estimado is the event's when the event carries a
\* non-empty one and the time computed from the items when the event's is
\* absent or the empty string; criar stores exactly that record.
C6_NewRecord ==
    [][\A w \in Workers :
        /\ \A evento \in EventosPedido :
              (processar_evento_pedido(w, evento) /\ RowsOf(evento.id_pedido) = {}) =>
                  /\ pc'[w] = "criar"
                  /\ ExpectedNovo(evento,
                         IF evento.tempo_estimado \notin {NoTempo, ""}
                         THEN evento.tempo_estimado
                         ELSE calcular_tempo_estimado_por_itens(evento.itens),
                         acomp'[w])
        /\ (criar(w) /\ RowsOf(acomp[w].id_pedido) = {}) =>
              \E r \in db' \ db :
                  /\ db' = db \cup {r}
                  /\ r.status = "Recebido"
                  /\ r.status_pagamento = "pendente"
                  /\ \A col \in {"id_pedido", "cpf_cliente", "itens", "tempo_estimado"} :
                        r[col] = acomp[w][col]
      ]_vars

\* a record was created with the time computed from two kinds of items
C6_Witness ==
    /\ HasOutcome
    /\ ret.args.op = "pedido"
    /\ ret.criar = 1
    /\ ~IsException(ret.out)
    /\ Len(ret.out.itens) = 2
    /\ ret.out.tempo_estimado = "00:24:00"
    /\ \E r \in db : r.tempo_estimado = "00:24:00" /\ r.status = "Recebido"

\* C7: processar_evento_pagamento for an id_pedido without a record returns
\* None, calls neither repository.atualizar nor repository.criar and leaves
\* the table unchanged.
C7_PaymentUnknownOrder ==
    [][\A w \in Workers, ev \in EventosPagamento :
        (processar_evento_pagamento(w, ev) /\ RowsOf(ev.id_pedido) = {}) =>
            /\ pc'[w] = "idle"
            /\ ret'.out = None
            /\ ret'.criar = 0
            /\ ret'.atualizar = 0
            /\ db' = db
            /\ RowsOfNext(ev.id_pedido) = {}
      ]_vars

\* a payment event for an order without a record returned None
C7_Witness ==
    /\ HasOutcome
    /\ ret.args.op = "pagamento"
    /\ ret.out = None
    /\ RowsOf(ret.args.id_pedido) = {}

\* C8: the table never holds two rows with the same id_pedido, and a criar
\* for an id_pedido that has a row fails and leaves the table as it is.
C8_UniqueOrderId ==
    /\ [](\A r1 \in db, r2 \in db : r1.id_pedido = r2.id_pedido => r1 = r2)
    /\ [][\A w \in Workers :
            (criar(w) /\ RowsOf(acomp[w].id_pedido) # {}) =>
                /\ db' = db
                /\ IsException(ret'.out)
         ]_vars

\* a criar met a stored row for its id_pedido and the row survived
C8_Witness ==
    /\ HasOutcome
    /\ ret.args.op = "pedido"
    /\ IsException(ret.out)
    /\ Cardinality(RowsOf(ret.args.id_pedido)) = 1

SeqApply(a, r) ==
    IF a.op = "pagamento"
    THEN [r EXCEPT !.status_pagamento = a.evento.status,
                   !.status = StatusAfterPayment(@, a.evento.status)]
    ELSE IF <<r.status, a.novo_status>> \in LegalEdges
         THEN [r EXCEPT !.status = a.novo_status]
         ELSE r

SameStatuses(a, b) ==
    a.status = b.status /\ a.status_pagamento = b.status_pagamento

\* C10: when two calls of processar_evento_pagamento / atualizar_status_pedido
\* looked up the same stored record and both updated it, the record stored
\* after the second update has the status and payment status of executing
\* the two calls one after the other, in one of the two orders.
C10_CriticalSection ==
    [][\A w \in Workers :
        (/\ atualizar_commit(w)
         /\ last # None
         /\ last.atualizar = 1
         /\ last.args.found = args[w].found) =>
            LET r0 == _from_db_model(args[w].found)
                first == last.args
                second == args[w]
            IN  \A r \in RowsOfNext(args[w].id_pedido) :
                    \/ SameStatuses(_from_db_model(r),
                                    SeqApply(second, SeqApply(first, r0)))
                    \/ SameStatuses(_from_db_model(r),
                                    SeqApply(first, SeqApply(second, r0)))
      ]_vars

\* C11: a payment event applied to a record directly after the same payment
\* event was applied to it leaves the stored status and payment status as the
\* first application left them and changes no column but atualizado_em.
C11_DuplicatePayment ==
    [][\A w \in Workers :
        (/\ atualizar_commit(w)
         /\ args[w].op = "pagamento"
         /\ last.atualizar = 1
         /\ last.args.op = "pagamento"
         /\ last.args.evento = args[w].evento) =>
            /\ RowsOfNext(args[w].id_pedido) # {}
            /\ \A r \in RowsOfNext(args[w].id_pedido) :
                  \E r0 \in RowsOf(args[w].id_pedido) :
                      /\ r.status = r0.status
                      /\ r.status_pagamento = r0.status_pagamento
                      /\ r.status_pagamento =
                            StatusPagamentoValue[args[w].evento.status]
                      /\ \A col \in DOMAIN r \ {"atualizado_em"} : r[col] = r0[col]
                      /\ r.atualizado_em > r0.atualizado_em
      ]_vars

\* a Paid event was applied to the record that the Paid event before it had
\* moved to preparation
C11_Witness ==
    /\ HasOutcome
    /\ ret.args.op = "pagamento"
    /\ ret.atualizar = 1
    /\ ret.args.evento.status = "PAGO"
    /\ ret.args.found.status = "Em preparação"
    /\ ret.args.found.status_pagamento = "pago"
    /\ ret.args.found.atualizado_em = clock - 1
    /\ \E r \in db : /\ r.id_pedido = ret.args.id_pedido
                     /\ r.status = "Em preparação"
                     /\ r.status_pagamento = "pago"
                     /\ r.atualizado_em = clock

\* the record of the message's order carries the message's payment status,
\* and is in preparation when that status is paid
Carries(m) ==
    \E r \in RowsOf(m.data.id_pedido) :
        /\ r.status_pagamento = m.data.status
        /\ m.data.status = "pago" => r.status = "Em preparação"

\* C12: a payment message that is in the queue while its order has no record
\* is not lost: from the moment the order has its record on, the record
\* eventually carries the message's payment status, and is in preparation
\* when that status is paid.
C12_PaymentNotLost ==
    \A m \in EnvelopesPagamento :
        [](  (m \in sqs /\ RowsOf(m.data.id_pedido) = {})
          => [](RowsOf(m.data.id_pedido) # {} => <>Carries(m)))

\* the stored record of an order has the given status and payment status
Stored(rows, status, pagamento) ==
    /\ rows # {}
    /\ \A r \in rows : /\ r.status = StatusPedidoValue[status]
                       /\ r.status_pagamento = StatusPagamentoValue[pagamento]

C14_LancheEstimate ==
    [][\A w \in Workers, payload \in PayloadsPedido :
        (/\ payload.tempo_estimado = NoTempo
         /\ Len(payload.itens) = 1
         /\ payload.itens[1].categoria = "LANCHE"
         /\ payload.itens[1].quantidade = 1
         /\ processar_evento_pedido(w, EventoPedido(payload))
         /\ RowsOf(payload.id_pedido) = {}) =>
            acomp'[w].tempo_estimado = "00:20:00"
      ]_vars

\* C15: atualizar_status_pedido for an id_pedido without a record raises
\* "Acompanhamento não encontrado", whatever the requested status, calls
\* neither repository.atualizar nor repository.criar and leaves the table as
\* it is, without a record for that id_pedido.
C15_UpdateUnknownOrder ==
    [][\A w \in Workers, id \in Orders, n \in StatusPedido :
        (atualizar_status_pedido(w, id, n) /\ RowsOf(id) = {}) =>
            /\ pc'[w] = "idle"
            /\ ret'.out = NaoEncontrado
            /\ ret'.atualizar = 0
            /\ ret'.criar = 0
            /\ db' = db
            /\ RowsOfNext(id) = {}
      ]_vars

\* a status update for an order without a record was refused as not found
C15_Witness ==
    /\ HasOutcome
    /\ ret.args.op = "status"
    /\ ret.out = NaoEncontrado
    /\ ret.atualizar = 0
    /\ RowsOf(ret.args.id_pedido) = {}

\* the stored record of the order is Completed
Finalizado(rows) == rows # {} /\ \A r \in rows : r.status = "Finalizado"

\* C16: Completed is terminal when calls do not overlap: on a record stored
\* as Completed every atualizar_status_pedido, whatever the target, raises
\* "Transição inválida" and writes nothing, every payment event keeps the
\* order status, and no step takes the stored status away from Completed.
C16_CompletedTerminal ==
    [][/\ \A w \in Workers, id \in Orders, n \in StatusPedido :
            (atualizar_status_pedido(w, id, n) /\ Finalizado(RowsOf(id))) =>
                /\ pc'[w] = "idle"
                /\ ret'.out = TransicaoInvalida
                /\ ret'.atualizar = 0
                /\ db' = db
       /\ \A w \in Workers, ev \in EventosPagamento :
            (processar_evento_pagamento(w, ev) /\ Finalizado(RowsOf(ev.id_pedido))) =>
                /\ acomp'[w].status = "FINALIZADO"
                /\ acomp'[w].status_pagamento = ev.status
       /\ \A id \in Orders :
            Finalizado(RowsOf(id)) => Finalizado(RowsOfNext(id))
      ]_vars

\* a payment event was applied to a Completed order, which stayed Completed
C16_Witness ==
    /\ HasOutcome
    /\ ret.args.op = "pagamento"
    /\ ret.atualizar = 1
    /\ ret.args.found.status = "Finalizado"
    /\ ret.args.found.status_pagamento # StatusPagamentoValue[ret.args.evento.status]
    /\ ~IsException(ret.out)
    /\ ret.out.status = "FINALIZADO"
    /\ Finalizado(RowsOf(ret.args.id_pedido))

\* the category and the quantity an item carries, under either name
AtributosDe(item) == IF IsDict(item) THEN item.keys ELSE item

CategoriaDe(item) ==
    Get(AtributosDe(item), "categoria", Get(AtributosDe(item), "category", NoTempo))

QuantidadeDe(item) ==
    Get(AtributosDe(item), "quantidade", Get(AtributosDe(item), "quantity", 1))

\* minutes per unit of a category, whatever its case
Taxa(categoria) ==
    CASE categoria \in {"LANCHE", "lanche", "Lanche"} -> 5
      [] categoria \in {"ACOMPANHAMENTO", "acompanhamento"} -> 2
      [] categoria \in {"BEBIDA", "bebida", "Bebida"} -> 1
      [] categoria \in {"SOBREMESA", "sobremesa"} -> 3
      [] OTHER -> 3

RECURSIVE TotalEsperado(_)
TotalEsperado(itens) ==
    IF itens = <<>> THEN 15
    ELSE Taxa(CategoriaDe(Head(itens))) * QuantidadeDe(Head(itens))
            + TotalEsperado(Tail(itens))

PorItensFeito ==
    /\ entrada # None
    /\ entrada.fn = "calcular_tempo_estimado_por_itens"
    /\ resultado # None

\* C17: for every list of items calcular_tempo_estimado_por_itens returns
\* the time of 15 minutes plus, for each item, the rate of its category
\* (5 LANCHE, 2 ACOMPANHAMENTO, 1 BEBIDA, 3 SOBREMESA, 3 for any other,
\* empty or missing one, whatever the case) times its quantity, a missing
\* quantity counting as 1.
C17_ByItems ==
    PorItensFeito =>
        resultado = Retorno(FormatHHMM(TotalEsperado(entrada.arg)))

Digito == <<"0", "1", "2", "3", "4", "5", "6", "7", "8", "9">>

\* the numbers that two decimal digits write
DuasCasas == 0..99

DoisDigitos(n) == Digito[(n \div 10) + 1] \o Digito[(n % 10) + 1]

\* C18: for every item list the string calcular_tempo_estimado_por_itens
\* returns is HH:MM:SS with exactly two digits in each field, HH being
\* total // 60, MM total % 60 and SS 00.
C18_TwoDigitFields ==
    (PorItensFeito /\ ~IsException(resultado)) =>
        LET total == 15 + TempoAdicional(entrada.arg)
        IN  /\ total \div 60 \in DuasCasas
            /\ resultado.valor =
                   DoisDigitos(total \div 60) \o ":" \o DoisDigitos(total % 60)
                       \o ":00"

\* the status a record carries, as the member or as its value
StatusIs(acompanhamento, m) ==
    acompanhamento.status \in {m, StatusPedidoValue[m]}

\* C19: get_estimated_time_minutes gives 5 for Received, 15 for
\* InPreparation, 10 for Ready, 0 for Completed and 0 for anything else, and
\* calcular_tempo_estimado returns "00:05:00", "00:15:00", "00:10:00" and
\* "00:00:00" for a record in these four statuses.
C19_StatusEstimate ==
    (entrada # None /\ resultado # None) =>
        /\ entrada.fn = "get_estimated_time_minutes" =>
              resultado.valor =
                  CASE entrada.arg = "RECEBIDO" -> 5
                    [] entrada.arg = "EM_PREPARACAO" -> 15
                    [] entrada.arg = "PRONTO" -> 10
                    [] OTHER -> 0
        /\ entrada.fn = "calcular_tempo_estimado" =>
              /\ StatusIs(entrada.arg, "RECEBIDO") =>
                    resultado = Retorno("00:05:00")
              /\ StatusIs(entrada.arg, "EM_PREPARACAO") =>
                    resultado = Retorno("00:15:00")
              /\ StatusIs(entrada.arg, "PRONTO") =>
                    resultado = Retorno("00:10:00")
              /\ StatusIs(entrada.arg, "FINALIZADO") =>
                    resultado = Retorno("00:00:00")

\* the estimate of a record whose stored status is Ready was returned
C19_Witness ==
    /\ entrada # None
    /\ entrada.fn = "calcular_tempo_estimado"
    /\ entrada.arg.status = StatusPedidoValue["PRONTO"]
    /\ resultado = Retorno("00:10:00")

\* C20: the list buscar_fila_pedidos returns, in whatever state it is
\* called, holds exactly the records whose status is InPreparation or Ready:
\* each of them once, and no record that is Received or Completed.
C20_KitchenQueue ==
    (HasOutcome /\ ret.args.op = "fila") =>
        LET fila == ret.out.fila
            naFila(r) == \E i \in 1..Len(fila) : fila[i] = _from_db_model(r)
        IN  /\ \A r \in db :
                  naFila(r) <=>
                      r.status \in {StatusPedidoValue["EM_PREPARACAO"],
                                    StatusPedidoValue["PRONTO"]}
            /\ \A i \in 1..Len(fila) : \E r \in db : fila[i] = _from_db_model(r)
            /\ \A i, j \in 1..Len(fila) : i # j => fila[i] # fila[j]

\* the queue was read while the order was Ready, and holds it
C20_Witness ==
    /\ HasOutcome
    /\ ret.args.op = "fila"
    /\ Len(ret.out.fila) = 1
    /\ ret.out.fila[1].status = "PRONTO"
    /\ \E r \in db : r.status = StatusPedidoValue["PRONTO"]

\* C21: _deve_notificar_cliente is true exactly for Ready and Completed:
\* false for Received, for InPreparation and for every value that is no
\* status.
C21_ShouldNotify ==
    (entrada # None /\ entrada.fn = "_deve_notificar_cliente"
        /\ resultado # None) =>
        resultado.valor =
            (StatusIs([status |-> entrada.arg], "PRONTO")
                \/ StatusIs([status |-> entrada.arg], "FINALIZADO"))

\* the predicate was asked about Completed and answered true
C21_Witness ==
    /\ entrada # None
    /\ entrada.fn = "_deve_notificar_cliente"
    /\ entrada.arg = "FINALIZADO"
    /\ resultado = Retorno(TRUE)

\* C22: no record without items ever exists.  EventoPedido and
\* Acompanhamento refuse an empty item list at construction, so every call
\* with a payload without items ends in the ValidationError with nothing
\* created, the record handed to criar has items, and so has every row.
C22_NoEmptyItems ==
    /\ \A payload \in PayloadsRecebidos :
          payload.itens = <<>> =>
              /\ EventoPedido(payload) = ItensVazios
              /\ Acompanhamento(payload) = ItensVazios
    /\ \A r \in db : r.itens # <<>>
    /\ \A w \in Workers : pc[w] = "criar" => acomp[w].itens # <<>>
    /\ (HasOutcome /\ ret.args.op = "validar") =>
          /\ ret.out = ItensVazios
          /\ ret.criar = 0

\* a payload without items was refused for an order that has its record
C22_Witness ==
    /\ HasOutcome
    /\ ret.args.op = "validar"
    /\ ret.out = ItensVazios
    /\ RowsOf(ret.args.id_pedido) # {}
    /\ \A r \in db : Len(r.itens) >= 1

\* C29: a kitchen status update that fails for want of a record is
\* answered 404 and one refused as an invalid transition 400, an
\* order-created request whose criar meets the unique index is answered
\* 409, and no other outcome of these two endpoints gets these codes.
C29_ErrorCodes ==
    HasOutcome =>
        /\ ret.args.op = "status" =>
              /\ http_atualizar_status_pedido(ret) = 404
                    <=> ret.out = NaoEncontrado
              /\ http_atualizar_status_pedido(ret) = 400
                    <=> ret.out = TransicaoInvalida
              /\ http_atualizar_status_pedido(ret) # 409
        /\ ret.args.op = "pedido" =>
              /\ http_processar_evento_pedido(ret) = 409
                    <=> ret.out = JaExiste
              /\ http_processar_evento_pedido(ret) \notin {400, 404}

\* two order-created requests raced and the loser was answered 409
C29_Witness ==
    /\ HasOutcome
    /\ ret.args.op = "pedido"
    /\ ret.out = JaExiste
    /\ http_processar_evento_pedido(ret) = 409
    /\ RowsOf(ret.args.id_pedido) # {}

\* C30: the payment-event endpoint answers 404 when the order of the event
\* has no tracking record.
C30_PaymentNotFound ==
    (HasOutcome /\ ret.args.op = "pagamento"
        /\ RowsOf(ret.args.id_pedido) = {}) =>
        http_processar_evento_pagamento(ret) = 404

\* the event types the envelope format names
TiposReconhecidos ==
    {"pagamento_confirmado", "pagamento_atualizado", "pedido_criado",
     "pedido_status_atualizado"}

\* the consumer is at a message of a type that is not recognized
NaoReconhecida ==
    /\ consumidor = "for"
    /\ lote # <<>>
    /\ Head(lote).event_type \notin TiposReconhecidos

\* C23: an envelope whose event_type is none of the recognized types fails
\* parsing with the ValueError of the unknown type: the step of the consumer
\* that handles it catches that error, calls no service method, leaves the
\* service and the table as they were and does not delete the message; and
\* no step takes a message of such a type out of the queue.
C23_UnknownType ==
    [][/\ (NaoReconhecida /\ lote' # lote) =>
            /\ visto' = Visto(Head(lote), SemChamada, DesconhecidoError, FALSE)
            /\ consumidor' = "for"
            /\ UNCHANGED <<sqs, svars>>
       /\ \A m \in sqs :
            m.event_type \notin TiposReconhecidos => m \in sqs']_vars

C23_Witness ==
    /\ visto # None
    /\ visto.msg \in EnvelopesDesconhecidos
    /\ visto.erro = DesconhecidoError
    /\ visto.chamada = SemChamada
    /\ visto.msg \in sqs
    /\ lote # <<>>

\* the step just taken was the consumer failing to parse message m
ParseFalhou(m) ==
    /\ visto # None
    /\ visto.msg = m
    /\ visto.chamada = SemChamada
    /\ visto.erro # None

\* C24: a message of an unknown event type or with a malformed payload is
\* not retried for ever: from some point on the consumer no longer fails to
\* parse it.
C24_NoEndlessRetry ==
    \A m \in EnvelopesFilaPedido : <>[]~ParseFalhou(m)

\* the step just taken was the consumer catching an exception on a message
Falhou == visto # None /\ visto.erro # None

\* the consumer can take its next step: handle the first message of what is
\* left of the batch, or, with nothing left, go to its next receive
Adiante ==
    \/ ENABLED consumir_mensagem
    \/ ENABLED (\E w \in Workers : consumir_status(w))
    \/ ENABLED fim_do_lote

\* C25: a message whose parsing or handling raises does not stop the
\* consumer loop: the step that catches the exception leaves the consumer in
\* its for loop with the rest of the batch, every message the consumer
\* handles is the first of what is left of the batch, after a message that
\* raised the consumer can take its next step, and the step it takes after
\* the last message of a batch is to its next receive.
C25_LoopGoesOn ==
    [][/\ Falhou' => (consumidor' = "for" /\ lote # <<>> /\ lote' = Tail(lote))
       /\ visto' # None => (lote # <<>> /\ visto'.msg = Head(lote))
       /\ Falhou => Adiante
       /\ (consumidor = "for" /\ lote = <<>> /\ consumidor' # "for")
            => consumidor' = "loop"]_vars

C25_Witness ==
    /\ Falhou
    /\ visto.chamada # SemChamada
    /\ consumidor = "for"
    /\ lote # <<>>

\* the step just taken was the consumer's call of the service ending in
\* the exception of the store, on message m
FalhaDoBanco(m) ==
    /\ visto # None
    /\ visto.msg = m
    /\ visto.chamada # SemChamada
    /\ ret # None
    /\ ret.out = ErroBanco

\* the consumer is handling message m
Tratando(m) == consumidor \in {"for", "await"} /\ lote # <<>> /\ Head(lote) = m

\* a receive can return message m
Reentrega(m) ==
    ENABLED (\E batch \in Lotes(sqs) :
                /\ \E i \in DOMAIN batch : batch[i] = m
                /\ receive_messages(batch))

C27_PaymentHandled ==
    [][\A m \in EnvelopesPagamento :
        (visto' # None /\ visto'.msg = m) =>
            /\ visto'.chamada.metodo = "processar_evento_pagamento"
            /\ visto'.chamada.id_pedido = m.data.id_pedido]_vars

\* C28: every status envelope the consumer receives leads to one call of
\* atualizar_status_pedido with the order and the status of the envelope,
\* and every order envelope to one call of processar_evento_pedido: the
\* step in which the consumer is done with the message has made that call.
C28_OrderHandled ==
    [][/\ \A m \in EnvelopesStatus :
            (  visto' # None /\ visto'.msg = m
            /\ StatusPedidoCall(m.data.status) # NoTempo) =>
                visto'.chamada =
                    [metodo |-> "atualizar_status_pedido",
                     id_pedido |-> m.data.id_pedido,
                     novo_status |-> StatusPedidoCall(m.data.status)]
       /\ \A m \in EnvelopesPedido :
            (visto' # None /\ visto'.msg = m) =>
                visto'.chamada.metodo = "processar_evento_pedido"]_vars

\* get_next_valid_states has returned for the status given
ProximosDe(current_status) ==
    /\ entrada.fn = "get_next_valid_states"
    /\ Chave(entrada.arg) = current_status
    /\ resultado # None

\* `n in lista`: some element equals n
Pertence(n, lista) == \E i \in 1..Len(lista) : Chave(lista[i]) = Chave(n)

\* C31: get_next_valid_states agrees with can_transition for every status:
\* can_transition(c, n) holds exactly when n is in get_next_valid_states(c);
\* the list has one element for Received, InPreparation and Ready and none
\* for Completed.
C31_NextValidStates ==
    (entrada # None /\ entrada.fn = "get_next_valid_states" /\ resultado # None) =>
        /\ \A n \in StatusInputs \cup {NoTempo} :
              can_transition(entrada.arg, n) <=> Pertence(n, resultado.valor)
        /\ Chave(entrada.arg) \in {"RECEBIDO", "EM_PREPARACAO", "PRONTO"}
              => Len(resultado.valor) = 1
        /\ Chave(entrada.arg) = "FINALIZADO" => resultado.valor = <<>>

C31_Witness ==
    /\ entrada # None
    /\ ProximosDe("FINALIZADO")
    /\ entrada.arg = "Finalizado"
    /\ resultado = Retorno(<<>>)

\* C32: a record, once created for an order, is never removed: every step
\* leaves each row of the table in place, under its key and with its order
\* id, so the set of orders that have a record only grows.
C32_NeverRemoved ==
    [][\A r \in db : \E r2 \in db' :
            /\ r2.id_acompanhamento = r.id_acompanhamento
            /\ r2.id_pedido = r.id_pedido]_vars

C32_Witness ==
    /\ last # None
    /\ last.args.op \in {"status", "pagamento"}
    /\ last.atualizar = 1
    /\ \E r \in db : r.id_pedido = last.args.id_pedido /\ r.atualizado_em > 1

\* C33: the consumer deletes a message once, and only after the handling of
\* that message returned without raising: a message leaves the queue only
\* in the step that ends its handling without an exception, that step
\* takes it out of the batch too, a handling that ends without an exception
\* deletes its message, and a step in which parsing or handling raised
\* leaves the queue as it was.
C33_AckAfterSuccess ==
    [][/\ \A m \in sqs : m \notin sqs' =>
            /\ Tratando(m)
            /\ visto' # None /\ visto'.msg = m
            /\ visto'.erro = None /\ visto'.deletada
            /\ sqs' = sqs \ {m}
            /\ lote' = Tail(lote)
            /\ \A i \in 1..Len(lote') : lote'[i] # m
       /\ Falhou' => (sqs' = sqs /\ ~visto'.deletada)
       /\ (visto' # None /\ visto'.erro = None) =>
            (visto'.msg \in sqs /\ visto'.msg \notin sqs')]_vars

C33_Witness ==
    /\ visto # None
    /\ visto.chamada # SemChamada
    /\ visto.erro = None
    /\ visto.deletada
    /\ visto.msg \notin sqs
    /\ ret # None /\ ret.atualizar = 1

\* the row of the table a record of the queue was read from
RowOf(a) == CHOOSE r \in db : r.id_pedido = a.id_pedido

\* C34: the kitchen queue is ordered by the creation of the records: of two
\* records in the list buscar_fila_pedidos returns, the one that was
\* created first, which has the smaller key, comes first.
C34_QueueByCreation ==
    (HasOutcome /\ ret.args.op = "fila") =>
        \A i, j \in 1..Len(ret.out.fila) :
            i < j => RowOf(ret.out.fila[i]).id_acompanhamento
                        < RowOf(ret.out.fila[j]).id_acompanhamento

\* C35: in every state the three operations reach, no record is Completed
\* while its payment is Pending.
C35_NoCompletedUnpaid ==
    \A r \in db :
        ~(  r.status = StatusPedidoValue["FINALIZADO"]
         /\ r.status_pagamento = StatusPagamentoValue["PENDENTE"])

\* the place of a stored status along Received < InPreparation < Ready <
\* Completed
Rank(status) ==
    CASE status = StatusPedidoValue["RECEBIDO"] -> 0
      [] status = StatusPedidoValue["EM_PREPARACAO"] -> 1
      [] status = StatusPedidoValue["PRONTO"] -> 2
      [] status = StatusPedidoValue["FINALIZADO"] -> 3

\* C36: under any interleaving of payment events and status updates on an
\* order, the stored status of its record never moves backwards along
\* Received < InPreparation < Ready < Completed.
C36_NeverBackwards ==
    [][\A r \in db, r2 \in db' :
            r2.id_acompanhamento = r.id_acompanhamento =>
                Rank(r2.status) >= Rank(r.status)]_vars

\* C37: in every state the service operations reach, under any interleaving
\* of the workers, no stored record is Received with its payment Paid.
C37_NoReceivedPaid ==
    \A r \in db :
        ~(  r.status = StatusPedidoValue["RECEBIDO"]
         /\ r.status_pagamento = StatusPagamentoValue["PAGO"])

\* the step on which a payment event or a status update returns or raises
FimDeAtualizacao ==
    /\ ret' # None
    /\ ret'.args.op \in {"status", "pagamento"}

\* the columns of a record that an update is to leave alone
Mantidas == {"id_pedido", "cpf_cliente", "itens", "valor_pago", "tempo_estimado"}

\* C38: processar_evento_pagamento and atualizar_status_pedido change only
\* status, status_pagamento and atualizado_em: after the call, the store
\* round trip of atualizar included, the record has the id_pedido,
\* cpf_cliente, itens, valor_pago and tempo_estimado it had before, the
\* records of the other orders are as they were, and no record is added.
C38_FrameEffect ==
    [][FimDeAtualizacao =>
        /\ \A r \in db : \E r2 \in db' :
              /\ r2.id_acompanhamento = r.id_acompanhamento
              /\ \A col \in Mantidas : r2[col] = r[col]
              /\ r.id_pedido # ret'.args.id_pedido => r2 = r
        /\ Cardinality(db') = Cardinality(db)]_vars

C38_Witness ==
    /\ HasOutcome
    /\ ret.args.op \in {"status", "pagamento"}
    /\ ret.atualizar = 1
    /\ Cardinality(db) = 2
    /\ \E r \in db :
          /\ r.id_pedido = ret.args.id_pedido
          /\ r.atualizado_em = clock
          /\ r.itens # <<>>

\* C39: with at-least-once delivery and a fair consumer in its loop, every
\* delivery of an order envelope is in the end acknowledged, the message
\* gone from the queue, with exactly one record in the store for its order.
C39_OrderDeliveredOnce ==
    \A m \in EnvelopesPedido :
        (m \in sqs /\ consumidor = "loop") ~>
            (m \notin sqs /\ Cardinality(RowsOf(m.data.id_pedido)) = 1)

====
